---- MODULE Spec2Model ----
(***************************************************************************)
(* Model of corr's iadc.py: the software configuration of the iADC over   *)
(* the write-only 'iadc_controller' register.                              *)
(*                                                                         *)
(* The module under study is Python 2 (print statements, line 70): `/` on  *)
(* two ints is floor division and round() rounds halves away from zero.    *)
(*                                                                         *)
(* Real-valued parameters are carried as integers in a fixed unit:         *)
(*   analogue gain   1/100 dB      (1.5 dB     = 150)                      *)
(*   fine gain       1/1000 dB     (0.315 dB   = 315)                      *)
(*   DC offset       1/8 LSb       (31.75 LSb  = 254)                      *)
(*   delays          1 ps                                                  *)
(* and every quotient the code rounds is rounded as an exact rational.     *)
(* DRDA arguments carry their Python type, [t |-> "int"|"float", v |-> ps],*)
(* because line 101 divides by the int 140.                                *)
(***************************************************************************)
EXTENDS Integers, Sequences, FiniteSets

VARIABLES
    log,    \* every blindwrite attempt so far: [data, offset, ok]
    last,   \* the most recent call: its arguments and how it ended
    calls   \* number of calls made

vars == <<log, last, calls>>

----------------------------------------------------------------------------
(* Bounds of the model *)

MaxCalls == 2       \* calls in one behaviour of Spec
Margin == 1         \* how far (in grid units) inputs go outside a valid range

----------------------------------------------------------------------------
(* Python arithmetic *)

Abs(x) == IF x < 0 THEN 0 - x ELSE x

\* x << n
Shl(x, n) == x * (2 ^ n)

\* int(round(num/den)), den > 0: Python 2 rounds halves away from zero
Round(num, den) ==
    IF num >= 0 THEN (2 * num + den) \div (2 * den)
    ELSE 0 - ((2 * (0 - num) + den) \div (2 * den))

\* Pack with the value little-endian ('<H2B')
Pack_little_endian(reg_value, b2, b3) ==
    <<reg_value % 256, reg_value \div 256, b2, b3>>

\* struct.pack('>H2B', reg_value, b2, b3)
Pack(reg_value, b2, b3) == <<reg_value \div 256, reg_value % 256, b2, b3>>

----------------------------------------------------------------------------
(* Program constants *)

BaseOffset == 4         \* offset=0x4+...
DeviceStride == 4       \* ...zdok_n*(0x04)
DefaultOffset == 0      \* blindwrite's offset when none is passed
GainRange == 150        \* 1.5 dB
OffsetRange == 254      \* 31.75 LSb
FineGainRange == 315    \* 0.315 dB
DelayMin == -64
DelayMax == 120
DrdaMin == -560
DrdaMax == 420
DrdaStep == 140
IsaMin == -200
IsaMax == 150
IsaPattern == 528       \* 0b1000010000

----------------------------------------------------------------------------
(* Outcome of a call: what it ended with, the blindwrite attempts it made, *)
(* and the reg_value arguments it handed to spi_write_register.           *)

Raise(kind, values) == [result |-> kind, writes |-> <<>>, values |-> values]

\* fpga.blindwrite('iadc_controller', data, offset): raises when ~ok
blindwrite(data, offset, ok) ==
    [result |-> IF ok THEN "ok" ELSE "TransportError",
     writes |-> <<[data |-> data, offset |-> offset, ok |-> ok]>>,
     values |-> <<>>]

\* spi_write_register without its zdok_n check
spi_write_register_unchecked(zdok_n, reg_addr, reg_value, ok) ==
    IF reg_value \notin 0..65535 THEN Raise("struct.error", <<reg_value>>)
    ELSE [blindwrite(<<reg_value \div 256, reg_value % 256, reg_addr, 1>>,
                     BaseOffset + zdok_n * DeviceStride, ok)
            EXCEPT !.values = <<reg_value>>]

spi_write_register(zdok_n, reg_addr, reg_value, ok) ==
    IF zdok_n \notin {0, 1} THEN Raise("RuntimeError", <<reg_value>>)
    ELSE IF reg_value \notin 0..65535 THEN Raise("struct.error", <<reg_value>>)
    ELSE [blindwrite(Pack(reg_value, reg_addr, 1),
                     BaseOffset + zdok_n * DeviceStride, ok)
            EXCEPT !.values = <<reg_value>>]

rst(zdok_n, ok) ==
    IF zdok_n \notin {0, 1} THEN Raise("RuntimeError", <<>>)
    ELSE blindwrite(<<0, 0, 3, Shl(1, zdok_n)>>, DefaultOffset, ok)

set_mode(mode, ok) ==
    IF mode = "SPI" THEN blindwrite(<<0, 0, 3, 0>>, DefaultOffset, ok)
    ELSE IF mode = "GW" THEN blindwrite(<<0, 0, 48, 0>>, DefaultOffset, ok)
    ELSE blindwrite(<<0, 0, 0, 0>>, DefaultOffset, ok)

\* clk_bits with the bucket edges on the wrong side
clk_bits_inclusive(clk_speed) ==
    IF clk_speed <= 125 THEN 0
    ELSE IF clk_speed <= 250 THEN 1
    ELSE IF clk_speed <= 500 THEN 2
    ELSE 3

clk_bits(clk_speed) ==
    IF clk_speed < 125 THEN 0
    ELSE IF clk_speed < 250 THEN 1
    ELSE IF clk_speed < 500 THEN 2
    ELSE 3

cal_bits(cal) == IF cal = "zero" THEN 0 ELSE IF cal = "old" THEN 1 ELSE 3

mode_bits(mode) ==
    IF mode = "inter_I" THEN 2 ELSE IF mode = "inter_Q" THEN 0 ELSE 11

mode_word(mode, cal, clk_speed) ==
    Shl(1, 14) + Shl(clk_bits(clk_speed), 12) + Shl(cal_bits(cal), 10)
    + Shl(mode_bits(mode), 4) + Shl(1, 3) + Shl(1, 2)

\* configure pulsing the reset before it writes the MODE register
configure_reset_first(zdok_n, mode, cal, clk_speed, ok1, ok2) ==
    IF zdok_n \notin {0, 1} THEN Raise("RuntimeError", <<>>)
    ELSE LET r == rst(zdok_n, ok1)
         IN  IF r.result # "ok" THEN r
             ELSE LET w == spi_write_register(zdok_n, 0,
                               mode_word(mode, cal, clk_speed), ok2)
                  IN  [result |-> w.result,
                       writes |-> r.writes \o w.writes,
                       values |-> w.values]

\* configure pulsing the reset even when the MODE write raised
configure_always_reset(zdok_n, mode, cal, clk_speed, ok1, ok2) ==
    IF zdok_n \notin {0, 1} THEN Raise("RuntimeError", <<>>)
    ELSE LET w == spi_write_register(zdok_n, 0, mode_word(mode, cal, clk_speed), ok1)
             r == rst(zdok_n, ok2)
         IN  [result |-> IF w.result # "ok" THEN w.result ELSE r.result,
              writes |-> w.writes \o r.writes,
              values |-> w.values]

configure(zdok_n, mode, cal, clk_speed, ok1, ok2) ==
    IF zdok_n \notin {0, 1} THEN Raise("RuntimeError", <<>>)
    ELSE LET w == spi_write_register(zdok_n, 0, mode_word(mode, cal, clk_speed), ok1)
         IN  IF w.result # "ok" THEN w
             ELSE LET r == rst(zdok_n, ok2)
                  IN  [result |-> r.result,
                       writes |-> w.writes \o r.writes,
                       values |-> w.values]

\* analogue_gain_bits truncating instead of rounding
analogue_gain_bits_truncated(gain) == ((gain + 150) * 255) \div 300

analogue_gain_bits(gain) == Round((gain + 150) * 255, 300)

\* analogue_gain_adj rejecting the ends of the range
analogue_gain_adj_exclusive(zdok_n, gain_I, gain_Q, ok) ==
    IF gain_I >= GainRange \/ gain_I <= 0 - GainRange
       \/ gain_Q <= 0 - GainRange \/ gain_Q >= GainRange
    THEN Raise("RuntimeError", <<>>)
    ELSE spi_write_register(zdok_n, 1,
             Shl(analogue_gain_bits(gain_Q), 8) + Shl(analogue_gain_bits(gain_I), 0), ok)

analogue_gain_adj(zdok_n, gain_I, gain_Q, ok) ==
    IF gain_I > GainRange \/ gain_I < 0 - GainRange
       \/ gain_Q < 0 - GainRange \/ gain_Q > GainRange
    THEN Raise("RuntimeError", <<>>)
    ELSE LET bits_I == analogue_gain_bits(gain_I)
             bits_Q == analogue_gain_bits(gain_Q)
         IN  spi_write_register(zdok_n, 1, Shl(bits_Q, 8) + Shl(bits_I, 0), ok)

\* offset_bits without abs()
offset_bits_signed(offset) == Round(offset * 127, 254)

offset_bits(offset) == Abs(Round(offset * 127, 254))

offset_sign(offset) == IF offset > 0 THEN 1 ELSE 0

offset_adj(zdok_n, offset_I, offset_Q, ok) ==
    IF offset_I > OffsetRange \/ offset_I < 0 - OffsetRange
       \/ offset_Q < 0 - OffsetRange \/ offset_Q > OffsetRange
    THEN Raise("RuntimeError", <<>>)
    ELSE LET bits_I == offset_bits(offset_I)
             bits_Q == offset_bits(offset_Q)
             sign_I == offset_sign(offset_I)
             sign_Q == offset_sign(offset_Q)
         IN  spi_write_register(zdok_n, 2,
                 Shl(sign_Q, 15) + Shl(sign_I, 7) + Shl(bits_Q, 8) + Shl(bits_I, 0), ok)

gain_adj(zdok_n, gain, ok) ==
    IF gain < 0 - FineGainRange \/ gain > FineGainRange
    THEN Raise("RuntimeError", <<>>)
    ELSE LET bits == Abs(Round(gain * 63, 315))
             sign == IF gain < 0 THEN 1 ELSE 0
         IN  spi_write_register(zdok_n, 3, Shl(sign, 6) + Shl(bits, 0), ok)

fisda_bits(delay) == Abs(Round(delay * 15, 120))

fisda_sign(delay) == IF delay < 0 THEN 1 ELSE 0

\* int(round((drda + 560) / 140)): floor division when drda is an int
drda_bits(drda) ==
    IF drda.t = "int" THEN Round((drda.v + 560) \div DrdaStep, 1)
    ELSE Round(drda.v + 560, DrdaStep)

fisda_Q_adj(zdok_n, delay, drda_i, drda_q, ok) ==
    IF delay < DelayMin \/ delay > DelayMax THEN Raise("RuntimeError", <<>>)
    ELSE IF drda_i.v < DrdaMin \/ drda_i.v > DrdaMax THEN Raise("RuntimeError", <<>>)
    ELSE IF drda_q.v < DrdaMin \/ drda_q.v > DrdaMax THEN Raise("RuntimeError", <<>>)
    ELSE LET full_pattern == Shl(fisda_sign(delay), 10) + Shl(fisda_bits(delay), 6)
                             + Shl(drda_bits(drda_q), 3) + Shl(drda_bits(drda_i), 0)
         IN  spi_write_register(zdok_n, 7, full_pattern, ok)

\* int(round((isa + 200) / 50.0)): computed by isa_adj and then not used
isa_bits(isa) == Round(isa + 200, 50)

\* isa_value with the reserved pattern one bit too far left
isa_value_shifted(isa_i, isa_q) == Shl(isa_q, 3) + Shl(isa_i, 0) + Shl(IsaPattern, 7)

isa_value(isa_i, isa_q) == Shl(isa_q, 3) + Shl(isa_i, 0) + Shl(IsaPattern, 6)

isa_adj(zdok_n, isa_i, isa_q, ok) ==
    IF isa_i < IsaMin \/ isa_i > IsaMax THEN Raise("RuntimeError", <<>>)
    ELSE IF isa_q < IsaMin \/ isa_q > IsaMax THEN Raise("RuntimeError", <<>>)
    ELSE spi_write_register(zdok_n, 4, isa_value(isa_i, isa_q), ok)

----------------------------------------------------------------------------
(* Inputs *)

PyInt(v) == [t |-> "int", v |-> v]
PyFloat(v) == [t |-> "float", v |-> v]

Devices == (0 - Margin)..(1 + Margin)
OperatingModes == {"SPI", "GW", "default"}
Modes == {"indep", "inter_Q", "inter_I", "other"}
Cals == {"new", "old", "zero", "other"}
ClockSpeeds == {0, 124, 125, 249, 250, 499, 500, 700, 800}

\* one parameter sweeps its whole grid while the others take a few values
Sweep2(fine, few) == (fine \X few) \cup (few \X fine)

Gains == (0 - GainRange - Margin)..(GainRange + Margin)
GainPairs == Sweep2(Gains, {0 - GainRange, 0, GainRange, GainRange + 1})

Offsets == (0 - OffsetRange - Margin)..(OffsetRange + Margin)
OffsetPairs == Sweep2(Offsets, {0 - OffsetRange, 0, OffsetRange, OffsetRange + 1})

FineGains == (0 - FineGainRange - Margin)..(FineGainRange + Margin)

Delays == (DelayMin - Margin)..(DelayMax + Margin)
Drdas == {PyInt(v) : v \in (DrdaMin - Margin)..(DrdaMax + Margin)}
         \cup {PyFloat(v) : v \in (DrdaMin - Margin)..(DrdaMax + Margin)}
FewDelays == {0, DelayMax + 1}
FewDrdas == {PyInt(0), PyInt(DrdaMax + 1)}
FisdaTriples ==
    (Delays \X FewDrdas \X FewDrdas) \cup (FewDelays \X Drdas \X FewDrdas)
    \cup (FewDelays \X FewDrdas \X Drdas)

Isas == (IsaMin - Margin)..(IsaMax + Margin)
IsaPairs == Sweep2(Isas, {IsaMin, 0, IsaMax, IsaMax + 1})

\* the inputs of Spec, where calls follow one another
SeqDevices == {0, 1, 2}
SeqConfigs == {<<"indep", "new", 800>>, <<"inter_I", "zero", 100>>,
               <<"inter_Q", "old", 200>>, <<"other", "other", 300>>}
SeqGainPairs == {<<0, 0>>, <<-150, 150>>}
SeqOffsetPairs == {<<8, -8>>, <<-254, 254>>}
SeqFineGains == {-315, 100}
SeqFisdaTriples == {<<0, PyInt(0), PyInt(0)>>, <<-64, PyInt(130), PyFloat(420)>>}
SeqIsaPairs == {<<0, 0>>, <<-200, 150>>}

----------------------------------------------------------------------------
(* State machine *)

NoCall == [op |-> "none", dev |-> 0, args |-> <<>>, result |-> "none",
           values |-> <<>>, start |-> 0]

Init ==
    /\ log = <<>>
    /\ last = NoCall
    /\ calls = 0

\* the call `op` with device `dev` and arguments `args` ended as `out`
Call(op, dev, args, out) ==
    /\ log' = log \o out.writes
    /\ last' = [op |-> op, dev |-> dev, args |-> args, result |-> out.result,
                values |-> out.values, start |-> Len(log)]
    /\ calls' = calls + 1

Do_set_mode(modes) ==
    \E mode \in modes, ok \in BOOLEAN :
        Call("set_mode", 0, <<mode>>, set_mode(mode, ok))

Do_rst(devs) ==
    \E d \in devs, ok \in BOOLEAN : Call("rst", d, <<>>, rst(d, ok))

Do_configure(devs, cfgs) ==
    \E d \in devs, c \in cfgs, ok1 \in BOOLEAN, ok2 \in BOOLEAN :
        Call("configure", d, c, configure(d, c[1], c[2], c[3], ok1, ok2))

Do_analogue_gain_adj(devs, pairs) ==
    \E d \in devs, g \in pairs, ok \in BOOLEAN :
        Call("analogue_gain_adj", d, g, analogue_gain_adj(d, g[1], g[2], ok))

Do_offset_adj(devs, pairs) ==
    \E d \in devs, o \in pairs, ok \in BOOLEAN :
        Call("offset_adj", d, o, offset_adj(d, o[1], o[2], ok))

Do_gain_adj(devs, gains) ==
    \E d \in devs, g \in gains, ok \in BOOLEAN :
        Call("gain_adj", d, <<g>>, gain_adj(d, g, ok))

Do_fisda_Q_adj(devs, triples) ==
    \E d \in devs, a \in triples, ok \in BOOLEAN :
        Call("fisda_Q_adj", d, a, fisda_Q_adj(d, a[1], a[2], a[3], ok))

Do_isa_adj(devs, pairs) ==
    \E d \in devs, a \in pairs, ok \in BOOLEAN :
        Call("isa_adj", d, a, isa_adj(d, a[1], a[2], ok))

(* Spec: any sequence of up to MaxCalls calls *)

SetMode == calls < MaxCalls /\ Do_set_mode(OperatingModes)
Rst == calls < MaxCalls /\ Do_rst(SeqDevices)
Configure == calls < MaxCalls /\ Do_configure(SeqDevices, SeqConfigs)
AnalogueGainAdj == calls < MaxCalls /\ Do_analogue_gain_adj(SeqDevices, SeqGainPairs)
OffsetAdj == calls < MaxCalls /\ Do_offset_adj(SeqDevices, SeqOffsetPairs)
GainAdj == calls < MaxCalls /\ Do_gain_adj(SeqDevices, SeqFineGains)
FisdaQAdj == calls < MaxCalls /\ Do_fisda_Q_adj(SeqDevices, SeqFisdaTriples)
IsaAdj == calls < MaxCalls /\ Do_isa_adj(SeqDevices, SeqIsaPairs)

Next ==
    \/ SetMode
    \/ Rst
    \/ Configure
    \/ AnalogueGainAdj
    \/ OffsetAdj
    \/ GainAdj
    \/ FisdaQAdj
    \/ IsaAdj

Spec == Init /\ [][Next]_vars

(* SpecCall: one call on a fresh transport, its inputs drawn from the grids *)

OneSetMode == calls = 0 /\ Do_set_mode(OperatingModes)
OneRst == calls = 0 /\ Do_rst(Devices)
OneConfigure == calls = 0 /\ Do_configure(Devices, Modes \X Cals \X ClockSpeeds)
OneAnalogueGainAdj == calls = 0 /\ Do_analogue_gain_adj(Devices, GainPairs)
OneOffsetAdj == calls = 0 /\ Do_offset_adj(Devices, OffsetPairs)
OneGainAdj == calls = 0 /\ Do_gain_adj(Devices, FineGains)
OneFisdaQAdj == calls = 0 /\ Do_fisda_Q_adj(Devices, FisdaTriples)
OneIsaAdj == calls = 0 /\ Do_isa_adj(Devices, IsaPairs)

NextCall ==
    \/ OneSetMode
    \/ OneRst
    \/ OneConfigure
    \/ OneAnalogueGainAdj
    \/ OneOffsetAdj
    \/ OneGainAdj
    \/ OneFisdaQAdj
    \/ OneIsaAdj

SpecCall == Init /\ [][NextCall]_vars

----------------------------------------------------------------------------
(* Vocabulary of the properties *)

Bit(w, i) == (w \div (2 ^ i)) % 2

RECURSIVE BitOr(_, _)
BitOr(a, b) ==
    IF a = 0 THEN b
    ELSE IF b = 0 THEN a
    ELSE (IF a % 2 = 1 \/ b % 2 = 1 THEN 1 ELSE 0) + 2 * BitOr(a \div 2, b \div 2)

\* n is an integer nearest to num/den (den > 0)
Nearest(n, num, den) == 2 * Abs(den * n - num) <= den

DataOps == {"analogue_gain_adj", "offset_adj", "gain_adj", "fisda_Q_adj", "isa_adj"}
DeviceOps == DataOps \cup {"configure", "rst"}

\* the documented ranges, in the units of the model
InRange(op, a) ==
    CASE op = "analogue_gain_adj" -> a[1] \in -150..150 /\ a[2] \in -150..150
      [] op = "offset_adj" -> a[1] \in -254..254 /\ a[2] \in -254..254
      [] op = "gain_adj" -> a[1] \in -315..315
      [] op = "fisda_Q_adj" ->
            a[1] \in -64..120 /\ a[2].v \in -560..420 /\ a[3].v \in -560..420
      [] op = "isa_adj" -> a[1] \in -200..150 /\ a[2] \in -200..150
      [] OTHER -> TRUE

RegisterOf(op) ==
    CASE op = "configure" -> 0
      [] op = "analogue_gain_adj" -> 1
      [] op = "offset_adj" -> 2
      [] op = "gain_adj" -> 3
      [] op = "isa_adj" -> 4
      [] op = "fisda_Q_adj" -> 7
      [] OTHER -> -1

\* the blindwrite attempts of the most recent call
LastWrites == SubSeq(log, last.start + 1, Len(log))

ValidCall(ops) == last.op \in ops /\ last.dev \in {0, 1} /\ InRange(last.op, last.args)

----------------------------------------------------------------------------
\* C1: a successful configure(d, ...) with d in {0,1} appends to the transport
\* exactly two writes, in this order: the MODE data-register write (register
\* address 0x0, trailing byte 0x01) at offset 4 + 4*d, then the reset pulse
\* [0,0,3,1<<d] at offset 0; what was written before is untouched.
C1_ConfigureWritesModeThenReset ==
    [][(last'.op = "configure" /\ last'.result = "ok") =>
         /\ last'.dev \in {0, 1}
         /\ Len(log') = Len(log) + 2
         /\ SubSeq(log', 1, Len(log)) = log
         /\ LET m == log'[Len(log) + 1]
                r == log'[Len(log) + 2]
            IN  /\ Len(m.data) = 4 /\ m.data[3] = 0 /\ m.data[4] = 1
                /\ m.offset = 4 + 4 * last'.dev
                /\ m.ok
                /\ r.data = <<0, 0, 3, 2 ^ last'.dev>>
                /\ r.offset = 0
                /\ r.ok]_vars

C1_Witness ==
    /\ last.op = "configure" /\ last.result = "ok" /\ last.dev = 1
    /\ last.start > 0 /\ Len(log) = last.start + 2

\* C2: a call of an operation that takes a device selector, with a device
\* outside {0,1}, ends in an error and the transport records no write, whatever
\* the other parameters are.
C2_BadDeviceNoWrite ==
    (last.op \in DeviceOps /\ last.dev \notin {0, 1}) =>
        last.result \notin {"ok", "none"} /\ log = <<>>

C2_Witness ==
    /\ last.op = "isa_adj" /\ last.dev = 2 /\ InRange(last.op, last.args)
    /\ last.result = "RuntimeError" /\ log = <<>>

C3_WitnessOutside ==
    /\ last.op = "gain_adj" /\ last.args = <<316>>
    /\ last.dev = 0 /\ last.result = "RuntimeError" /\ log = <<>>

\* C4: when the transport write of the MODE register fails during configure,
\* the failure reaches the caller and that MODE write is the only write attempt
\* of the call: no reset pulse, no retry.
C4_ModeWriteFailureStops ==
    (last.op = "configure" /\ Len(LastWrites) > 0 /\ ~LastWrites[1].ok) =>
        /\ last.result = "TransportError"
        /\ Len(LastWrites) = 1
        /\ LastWrites[1].data[3] = 0 /\ LastWrites[1].data[4] = 1

C4_Witness ==
    /\ last.op = "configure" /\ last.result = "TransportError"
    /\ Len(LastWrites) = 1 /\ ~LastWrites[1].ok /\ last.start > 0

\* C5: the word configure passes for the MODE register is
\* (1<<14)|(clockBucket<<12)|(calBits<<10)|(modeBits<<4)|(1<<3)|(1<<2), with the
\* documented clock buckets, calibration bits and mode bits; bits 14, 3 and 2
\* are set, and the fields do not overlap.
C5_ClockTable ==
    {<<124, 0>>, <<125, 1>>, <<249, 1>>, <<250, 2>>, <<499, 2>>, <<500, 3>>, <<700, 3>>}

C6_AnalogueGainWord ==
    ValidCall({"analogue_gain_adj"}) =>
        LET w == last.values[1]
            bitsI == w % 256
            bitsQ == w \div 256
        IN  /\ w \in 0..65535
            /\ bitsQ \in 0..255
            /\ Nearest(bitsI, (last.args[1] + 150) * 255, 300)
            /\ Nearest(bitsQ, (last.args[2] + 150) * 255, 300)
            /\ w = BitOr(bitsQ * 256, bitsI)
            /\ (last.args = <<0, 0>> => w = 32896)
            /\ log[1].data = <<bitsQ, bitsI, 1, 1>>

C6_Witness ==
    /\ last.op = "analogue_gain_adj" /\ last.dev = 1 /\ last.args = <<0, 0>>
    /\ last.values = <<32896>> /\ last.result = "ok"

\* C7: for x in (0,31.75], the words offset_adj writes for (x,0) and (-x,0) have
\* the same I magnitude in bits 0-6, the integer nearest to |x|*127/31.75 (at
\* most 127), and opposite I sign in bit 7 (1 for +x, 0 for -x); likewise for
\* channel Q with (0,x) and (0,-x), magnitude in bits 8-14 and sign in bit 15.
C7_OffsetAntisymmetric ==
    /\ (ValidCall({"offset_adj"}) /\ last.args[1] > 0 /\ last.args[2] = 0) =>
        LET x == last.args[1]
            w == last.values[1]
            n == offset_adj(last.dev, 0 - x, 0, TRUE).values[1]
        IN  /\ w \in 0..65535 /\ n \in 0..65535
            /\ w % 128 = n % 128
            /\ Nearest(w % 128, x * 127, 254)
            /\ Bit(w, 7) = 1 /\ Bit(n, 7) = 0
            /\ w \div 256 = 0 /\ n \div 256 = 0
    /\ (ValidCall({"offset_adj"}) /\ last.args[2] > 0 /\ last.args[1] = 0) =>
        LET x == last.args[2]
            w == last.values[1]
            n == offset_adj(last.dev, 0, 0 - x, TRUE).values[1]
        IN  /\ w \in 0..65535 /\ n \in 0..65535
            /\ (w \div 256) % 128 = (n \div 256) % 128
            /\ Nearest((w \div 256) % 128, x * 127, 254)
            /\ Bit(w, 15) = 1 /\ Bit(n, 15) = 0
            /\ w % 256 = 0 /\ n % 256 = 0

C7_Witness ==
    /\ last.op = "offset_adj" /\ last.dev = 0 /\ last.args = <<254, 0>>
    /\ last.values = <<255>> /\ last.result = "ok"

\* C8: for delay in [-64,120] and drdaI, drdaQ in [-560,420], integer values
\* included, fisda_Q_adj writes to register 0x7 the word
\* (fisdaSign<<10)|(fisdaBits<<6)|(drdaQBits<<3)|drdaIBits, fisdaBits the integer
\* nearest to |delay|*15/120, fisdaSign = 1 exactly when delay < 0, and each
\* DRDA field the integer nearest to (value+560)/140, in 0..7.
C8_FisdaWord ==
    ValidCall({"fisda_Q_adj"}) =>
        LET w == last.values[1]
            drdaI == w % 8
            drdaQ == (w \div 8) % 8
            fisdaBits == (w \div 64) % 16
            fisdaSign == w \div 1024
        IN  /\ w \in 0..2047
            /\ fisdaSign = (IF last.args[1] < 0 THEN 1 ELSE 0)
            /\ Nearest(fisdaBits, Abs(last.args[1]) * 15, 120)
            /\ Nearest(drdaI, last.args[2].v + 560, 140)
            /\ Nearest(drdaQ, last.args[3].v + 560, 140)
            /\ w = BitOr(fisdaSign * 2 ^ 10, BitOr(fisdaBits * 2 ^ 6,
                     BitOr(drdaQ * 2 ^ 3, drdaI)))
            /\ log[1].data[3] = 7

\* C9: every packet handed to the transport is 4 bytes and is a data-register
\* write [hi, lo, register, 0x01] at offset 4 + 4*device, an operating-mode
\* select [0,0,a,0] at offset 0 with a in {0x03, 0x30, 0x00}, or a reset pulse
\* [0,0,3,p] at offset 0 with p = 1<<device; the packets of a call carry the
\* register of its operation, its value big-endian, or its mode's select byte.
C9_DataWrite(e) ==
    /\ e.data[1] \in 0..255 /\ e.data[2] \in 0..255
    /\ e.data[3] \in {0, 1, 2, 3, 4, 7} /\ e.data[4] = 1
    /\ e.offset \in {4, 8}

C9_ModeSelect(e) ==
    /\ e.data[1] = 0 /\ e.data[2] = 0 /\ e.data[3] \in {3, 48, 0} /\ e.data[4] = 0
    /\ e.offset = 0

C9_ResetPulse(e) ==
    /\ e.data[1] = 0 /\ e.data[2] = 0 /\ e.data[3] = 3 /\ e.data[4] \in {1, 2}
    /\ e.offset = 0

C9_PacketShapes ==
    /\ \A i \in 1..Len(log) :
        /\ Len(log[i].data) = 4
        /\ C9_DataWrite(log[i]) \/ C9_ModeSelect(log[i]) \/ C9_ResetPulse(log[i])
    /\ \A i \in 1..Len(LastWrites) :
        LET e == LastWrites[i]
        IN  CASE last.op = "set_mode" ->
                   /\ i = 1
                   /\ e.offset = 0
                   /\ e.data = <<0, 0, (CASE last.args[1] = "SPI" -> 3
                                          [] last.args[1] = "GW" -> 48
                                          [] OTHER -> 0), 0>>
              [] last.op = "rst" \/ (last.op = "configure" /\ i = 2) ->
                   e.offset = 0 /\ e.data = <<0, 0, 3, 2 ^ last.dev>>
              [] OTHER ->
                   /\ i = 1
                   /\ e.offset = 4 + 4 * last.dev
                   /\ e.data[1] * 256 + e.data[2] = last.values[1]
                   /\ e.data[1] \in 0..255 /\ e.data[2] \in 0..255
                   /\ e.data[3] = RegisterOf(last.op) /\ e.data[4] = 1

C9_Witness ==
    /\ Len(log) = 3
    /\ last.op = "fisda_Q_adj" /\ last.dev = 1 /\ last.start = 2
    /\ log[1].data = <<124, 188, 0, 1>> /\ log[1].offset = 4
    /\ log[2].data = <<0, 0, 3, 1>> /\ log[2].offset = 0
    /\ log[3].data = <<6, 60, 7, 1>> /\ log[3].offset = 8

\* C10: for every data-register operation called with a valid device and
\* parameters inside their ranges, the value passed to spi_write_register is in
\* 0..65535; for isa_adj that value is (isaQ<<3) + isaI + (0b1000010000<<6),
\* built from the raw isaI and isaQ.
C10_ValueFits16Bits ==
    ValidCall(DataOps) =>
        /\ Len(last.values) = 1
        /\ last.values[1] \in 0..65535
        /\ Len(log) = 1
        /\ log[1].data[1] * 256 + log[1].data[2] = last.values[1]
        /\ (last.op = "isa_adj" =>
                last.values[1] = 8 * last.args[2] + last.args[1] + 528 * 64)

C10_Witness ==
    /\ last.op = "isa_adj" /\ last.dev = 0 /\ last.args = <<-200, 150>>
    /\ last.values = <<34792>>
    /\ last.values[1] # 8 * isa_bits(150) + isa_bits(-200) + 528 * 64
    /\ last.result = "ok"

====
